---- MODULE Spec2Model ----
(***************************************************************************)
(* Model of the FixedFloat API client of src/index.js: the constructor,    *)
(* the request and response interceptors, the two parsing helpers and the  *)
(* five operations.                                                        *)
(*                                                                         *)
(* A JavaScript value is a record whose field t is its type tag; a string  *)
(* has its text in s, a number its value in n, an object its entries in e. *)
(* A string is a sequence of symbols; the symbol SP is the space           *)
(* character and every other symbol is a space-free piece of text.  An     *)
(* object is the sequence of its entries [k, v] in insertion order, which  *)
(* is the order both serialisations walk.                                  *)
(***************************************************************************)
EXTENDS Integers, Sequences, FiniteSets, TLC

VARIABLES client, lastCtor, pc, call, request, nreq, response, result,
          splitIn, splitOut

vars == <<client, lastCtor, pc, call, request, nreq, response, result,
          splitIn, splitOut>>

----------------------------------------------------------------------------
(* JavaScript values *)

SP == " "

Undef == [t |-> "undefined"]

Null == [t |-> "null"]

Str(s) == [t |-> "string", s |-> s]

Num(n) == [t |-> "number", n |-> n]

Obj(entries) == [t |-> "object", e |-> entries]

Entry(key, val) == [k |-> key, v |-> val]

RECURSIVE SelectEntries(_, _)
SelectEntries(entries, key) ==
    IF entries = <<>> THEN <<>>
    ELSE IF Head(entries).k = key
         THEN <<Head(entries)>> \o SelectEntries(Tail(entries), key)
         ELSE SelectEntries(Tail(entries), key)

Keys(entries) == {entries[i].k : i \in 1..Len(entries)}

\* obj.key, and what destructuring {key} = obj reads: undefined when absent.
Prop(obj, key) ==
    IF obj.t = "object" /\ key \in Keys(obj.e)
    THEN SelectEntries(obj.e, key)[1].v
    ELSE Undef

\* obj.key = val on an object: overwrite in place, or append a new entry.
SetProp(obj, key, val) ==
    IF key \in Keys(obj.e)
    THEN Obj([i \in 1..Len(obj.e) |->
                 IF obj.e[i].k = key THEN Entry(key, val) ELSE obj.e[i]])
    ELSE Obj(Append(obj.e, Entry(key, val)))

\* The truthiness test of !x, x || y and of _.identity used as a predicate.
Truthy(x) ==
    CASE x.t = "undefined" -> FALSE
      [] x.t = "null" -> FALSE
      [] x.t = "string" -> x.s # <<>>
      [] x.t = "number" -> x.n # 0
      [] OTHER -> TRUE

\* lodash _.isEmpty: nil and numbers are empty, a string or an object is
\* empty when it has no characters or no own keys.
IsEmpty(x) ==
    CASE x.t = "string" -> x.s = <<>>
      [] x.t = "object" -> x.e = <<>>
      [] OTHER -> TRUE

----------------------------------------------------------------------------
(* String helpers *)

RECURSIVE IndexFrom(_, _, _)
IndexFrom(s, sym, i) ==
    IF i > Len(s) THEN -1
    ELSE IF s[i] = sym THEN i - 1
    ELSE IndexFrom(s, sym, i + 1)

\* String.prototype.indexOf: the 0-based position of the first match or -1.
IndexOf(s, sym) == IndexFrom(s, sym, 1)

\* lodash _.includes on a string; false for a nil collection.
Includes(x, sym) == x.t = "string" /\ IndexOf(x.s, sym) >= 0

\* String.prototype.split(sep): every piece between separators.
RECURSIVE SplitAll(_, _)
SplitAll(s, sep) ==
    LET i == IndexOf(s, sep)
    IN  IF i < 0 THEN <<s>>
        ELSE <<SubSeq(s, 1, i)>> \o SplitAll(SubSeq(s, i + 2, Len(s)), sep)

\* lodash _.split(string, separator, limit): split at every separator, then
\* keep the first `limit` pieces.
Split(s, sep, limit) ==
    LET parts == SplitAll(s, sep)
    IN  SubSeq(parts, 1, IF Len(parts) < limit THEN Len(parts) ELSE limit)

\* _splitCcy: {ccy} when there is no space, else {amount, ccy} from the
\* first two pieces of the split.  An absent amount reads as undefined.
SplitCcy(ccyData) ==
    IF ~Includes(ccyData, SP)
    THEN [amount |-> Undef, ccy |-> ccyData]
    ELSE LET parts == Split(ccyData.s, SP, 2)
         IN  [amount |-> Str(parts[1]), ccy |-> Str(parts[2])]

\* _calcAmtAndDir: the from-side amount wins, then the to-side one.
CalcAmtAndDir(fromAmt, toAmt) ==
    IF ~IsEmpty(fromAmt) THEN [amount |-> fromAmt, direction |-> Str(<<"from">>)]
    ELSE IF ~IsEmpty(toAmt) THEN [amount |-> toAmt, direction |-> Str(<<"to">>)]
    ELSE [amount |-> Undef, direction |-> Undef]

\* lodash _.omitBy(object, predicate) with predicate _.identity, which is also
\* the default when no predicate is passed: drop every entry whose value the
\* predicate returns truthy for, keep the others.
OmitBy(entries) == SelectSeq(entries, LAMBDA e : ~Truthy(e.v))

----------------------------------------------------------------------------
(* Serialisations *)

\* String(value), as URLSearchParams applies it to every value.  The values
\* the operations put in a body are strings, undefined or null.
ToText(x) ==
    CASE x.t = "undefined" -> <<"undefined">>
      [] x.t = "null" -> <<"null">>
      [] x.t = "string" -> x.s
      [] OTHER -> <<"[object Object]">>

\* application/x-www-form-urlencoded text: a space is written as "+".
FormText(s) == [i \in 1..Len(s) |-> IF s[i] = SP THEN "+" ELSE s[i]]

\* new URLSearchParams(object): one name=value pair per own key, in order.
FormFields(entries) ==
    [i \in 1..Len(entries) |->
        [k |-> entries[i].k, text |-> FormText(ToText(entries[i].v))]]

RECURSIVE FormString(_)
FormString(fields) ==
    IF fields = <<>> THEN <<>>
    ELSE LET one == <<Head(fields).k, "=">> \o Head(fields).text
         IN  IF Len(fields) = 1 THEN one
             ELSE one \o <<"&">> \o FormString(Tail(fields))

\* The request interceptor's bodyStr.
BodyStr(data) ==
    IF IsEmpty(data) THEN <<>> ELSE FormString(FormFields(data.e))

\* JSON.stringify of an object leaves out the keys whose value is undefined.
JsonFields(entries) == SelectSeq(entries, LAMBDA e : e.v.t # "undefined")

JsonValue(x) ==
    CASE x.t = "null" -> <<"null">>
      [] x.t = "string" -> <<"\"">> \o x.s \o <<"\"">>
      [] OTHER -> <<"{}">>

RECURSIVE JsonMembers(_)
JsonMembers(fields) ==
    IF fields = <<>> THEN <<>>
    ELSE LET one == <<"\"", Head(fields).k, "\"", ":">> \o JsonValue(Head(fields).v)
         IN  IF Len(fields) = 1 THEN one
             ELSE one \o <<",">> \o JsonMembers(Tail(fields))

\* What the client created with Content-Type application/json transmits for
\* post(url, data): nothing without data, else the JSON text of data.
WireBody(data) ==
    IF data.t # "object" THEN <<>>
    ELSE <<"{">> \o JsonMembers(JsonFields(data.e)) \o <<"}">>

WireFields(data) == IF data.t # "object" THEN <<>> ELSE JsonFields(data.e)

SignFields(data) == IF IsEmpty(data) THEN <<>> ELSE FormFields(data.e)

\* crypto.createHmac('sha256', secretKey).update(bodyStr).digest('hex'),
\* kept symbolic: a digest is determined by its key and its message.
Hmac(secretKey, bodyStr) == [alg |-> "sha256", key |-> secretKey, msg |-> bodyStr]

----------------------------------------------------------------------------
(* Errors, results and the response interceptor *)

NoError == [name |-> "", text |-> "", code |-> Undef, msg |-> Undef]

KeysError ==
    [name |-> "Error", text |-> "Please provide an API and secret keys",
     code |-> Undef, msg |-> Undef]

ParamsError ==
    [name |-> "Error", text |-> "No required params", code |-> Undef, msg |-> Undef]

\* Reading a property of null or undefined.
TypeError == [name |-> "TypeError", text |-> "", code |-> Undef, msg |-> Undef]

\* new Error(`Error ${code}: ${msg}`)
ApiError(code, msg) ==
    [name |-> "Error", text |-> "Error code: msg", code |-> code, msg |-> msg]

\* The transport rejected: no response, or a status outside 2xx.
TransportError ==
    [name |-> "AxiosError", text |-> "", code |-> Undef, msg |-> Undef]

Pending == [kind |-> "pending", value |-> Undef, err |-> NoError]

Returned(val) == [kind |-> "ok", value |-> val, err |-> NoError]

Thrown(e) == [kind |-> "error", value |-> Undef, err |-> e]

STATES ==
    << <<"Transaction expected">>,
       <<"The transaction is waiting for the required number of confirmations">>,
       <<"Currency exchange">>,
       <<"Sending funds">>,
       <<"Completed">>,
       <<"Expired">>,
       <<"Not currently in use">>,
       <<"A decision must be made to proceed with the order">> >>

Digits == <<"0", "1", "2", "3", "4", "5", "6", "7">>

\* STATES[status]: an element for an index in range, undefined otherwise.
StateText(status) ==
    IF status.t = "string" /\ Len(status.s) = 1
       /\ \E i \in 1..Len(Digits) : Digits[i] = status.s[1]
    THEN Str(STATES[CHOOSE i \in 1..Len(Digits) : Digits[i] = status.s[1]])
    ELSE Undef

\* a === b on values without object identity.
StrictEq(a, b) == a.t = b.t /\ a = b

OK == Str(<<"OK">>)

\* The response interceptor, on a response whose body is `body`, followed by
\* the operation's `const {data} = await ...; return data`.
\* data = resp.data.data; {status, msg, code} are read from it.
Intercept(body) ==
    LET data == Prop(body, "data")
        status == Prop(data, "status")
        msg == Prop(data, "msg")
        code == Prop(data, "code")
    IN  IF data.t \in {"undefined", "null"} THEN Thrown(TypeError)
        ELSE IF ~StrictEq(code, Num(0)) \/ ~StrictEq(msg, OK)
             THEN Thrown(ApiError(code, msg))
        ELSE IF ~IsEmpty(status)
             THEN Returned(SetProp(body, "data",
                                   SetProp(data, "statusText", StateText(status))))
        ELSE Returned(body)

----------------------------------------------------------------------------
(* The constructor *)

NoClient ==
    [made |-> FALSE, apiKey |-> Undef, secretKey |-> Undef,
     refcode |-> Undef, afftax |-> Undef]

NotConstructed ==
    [run |-> FALSE, apiKey |-> Undef, secretKey |-> Undef, affiliate |-> Undef,
     err |-> NoError]

\* The check with && in place of ||: it passes when one key is there.
CredentialsMissing_BothOnly(apiKey, secretKey) ==
    ~Truthy(apiKey) /\ ~Truthy(secretKey)

\* if (!apiKey || !secretKey) throw ...
CredentialsMissing(apiKey, secretKey) == ~Truthy(apiKey) \/ ~Truthy(secretKey)

KeyArgs(name) == {Undef, Null, Str(<<>>), Str(<<name>>)}

AffiliateArgs ==
    {Undef, Null,
     Obj(<<Entry("refcode", Str(<<"R">>)), Entry("afftax", Str(<<"T">>))>>)}

\* new FixedFloat(apiKey, secretKey, affiliate).  A throwing constructor
\* leaves no instance behind.
Construct(apiKey, secretKey, affiliate) ==
    /\ ~client.made
    /\ LET err == IF CredentialsMissing(apiKey, secretKey) THEN KeysError
                  ELSE IF affiliate.t = "null" THEN TypeError
                  ELSE NoError
       IN  /\ lastCtor' = [run |-> TRUE, apiKey |-> apiKey, secretKey |-> secretKey,
                           affiliate |-> affiliate, err |-> err]
           /\ client' = IF err # NoError THEN NoClient
                        ELSE [made |-> TRUE, apiKey |-> apiKey,
                              secretKey |-> secretKey,
                              refcode |-> IF affiliate.t = "undefined" THEN Undef
                                          ELSE Prop(affiliate, "refcode"),
                              afftax |-> IF affiliate.t = "undefined" THEN Undef
                                         ELSE Prop(affiliate, "afftax")]
    /\ UNCHANGED <<pc, call, request, nreq, response, result, splitIn, splitOut>>

----------------------------------------------------------------------------
(* The operations *)

NoCall ==
    [op |-> "", from |-> Undef, to |-> Undef, type |-> Undef, toAddress |-> Undef,
     tag |-> Undef, id |-> Undef, token |-> Undef, choice |-> Undef,
     address |-> Undef]

NoRequest ==
    [path |-> "", data |-> Undef, apiKey |-> Undef, signFields |-> <<>>,
     signBase |-> <<>>, sign |-> Hmac(Undef, <<>>), wireFields |-> <<>>,
     wireBody |-> <<>>]

\* A parameter's default value stands in for undefined only.
Default(x, dflt) == IF x.t = "undefined" THEN dflt ELSE x

Float == Str(<<"float">>)

\* The guard of getPrice and createOrder:
\* !from || !to || from.indexOf(' ') + to.indexOf(' ') === -2
NoRequiredParams(from, to) ==
    \/ ~Truthy(from)
    \/ ~Truthy(to)
    \/ IndexOf(from.s, SP) + IndexOf(to.s, SP) = -2

\* The object literal getPrice hands to _.omitBy.
PriceFields(from, to, type) ==
    LET f == SplitCcy(from)
        t == SplitCcy(to)
        ad == CalcAmtAndDir(f.amount, t.amount)
    IN  <<Entry("type", type),
          Entry("fromCcy", f.ccy), Entry("toCcy", t.ccy),
          Entry("amount", ad.amount), Entry("direction", ad.direction),
          Entry("refcode", client.refcode), Entry("afftax", client.afftax)>>

\* The object literal createOrder hands to _.omitBy.
CreateFields(from, to, type, tag) ==
    LET f == SplitCcy(from)
        t == SplitCcy(to)
        ad == CalcAmtAndDir(f.amount, t.amount)
    IN  <<Entry("type", type), Entry("tag", tag),
          Entry("fromCcy", f.ccy), Entry("toCcy", t.ccy),
          Entry("amount", ad.amount), Entry("direction", ad.direction),
          Entry("refcode", client.refcode), Entry("afftax", client.afftax)>>

OrderFields(id, token) == <<Entry("id", id), Entry("token", token)>>

EmergencyFields(id, token, choice, address) ==
    <<Entry("id", id), Entry("token", token), Entry("choice", choice),
      Entry("address", address)>>

\* this._client.post(path, data): the request interceptor signs bodyStr, then
\* the request goes out with the body the transport makes of data.
Post(path, data) ==
    /\ request' = [path |-> path, data |-> data, apiKey |-> client.apiKey,
                   signFields |-> SignFields(data),
                   signBase |-> BodyStr(data),
                   sign |-> Hmac(client.secretKey, BodyStr(data)),
                   wireFields |-> WireFields(data),
                   wireBody |-> WireBody(data)]
    /\ nreq' = nreq + 1
    /\ pc' = "awaiting"
    /\ UNCHANGED <<response, result>>

\* A throw before the request: the promise of the operation rejects.
Fail(e) ==
    /\ result' = Thrown(e)
    /\ pc' = "done"
    /\ UNCHANGED <<request, nreq, response>>

CcyArgs ==
    {Undef, Str(<<>>), Str(<<"ETH">>), Str(<<"BTC">>),
     Str(<<"0.1", SP, "ETH">>), Str(<<"0.1", SP, "BTC">>),
     Str(<<SP, "ETH">>), Str(<<"0.1", SP>>),
     Str(<<"0.1", SP, "ETH", SP, "BTC">>)}

TypeArgs == {Undef, Str(<<"fixed">>)}

OptArgs(name) == {Undef, Null, Str(<<>>), Str(<<name>>)}

GetCurrencies ==
    /\ client.made /\ pc = "idle"
    /\ call' = [NoCall EXCEPT !.op = "getCurrencies"]
    /\ Post("/ccies", Undef)
    /\ UNCHANGED <<client, lastCtor, splitIn, splitOut>>

GetPrice(from, to, typeArg) ==
    /\ client.made /\ pc = "idle"
    /\ call' = [NoCall EXCEPT !.op = "getPrice", !.from = from, !.to = to,
                              !.type = typeArg]
    /\ IF NoRequiredParams(from, to)
       THEN Fail(ParamsError)
       ELSE Post("/price", Obj(OmitBy(PriceFields(from, to, Default(typeArg, Float)))))
    /\ UNCHANGED <<client, lastCtor, splitIn, splitOut>>

GetOrder(id, token) ==
    /\ client.made /\ pc = "idle"
    /\ call' = [NoCall EXCEPT !.op = "getOrder", !.id = id, !.token = token]
    /\ Post("/order", Obj(OrderFields(id, token)))
    /\ UNCHANGED <<client, lastCtor, splitIn, splitOut>>

SetEmergency(id, token, choice, address) ==
    /\ client.made /\ pc = "idle"
    /\ call' = [NoCall EXCEPT !.op = "setEmergency", !.id = id, !.token = token,
                              !.choice = choice, !.address = address]
    /\ Post("/emergency", Obj(EmergencyFields(id, token, choice, address)))
    /\ UNCHANGED <<client, lastCtor, splitIn, splitOut>>

CreateOrder(from, to, toAddress, typeArg, tag) ==
    /\ client.made /\ pc = "idle"
    /\ call' = [NoCall EXCEPT !.op = "createOrder", !.from = from, !.to = to,
                              !.toAddress = toAddress, !.type = typeArg,
                              !.tag = tag]
    /\ IF NoRequiredParams(from, to)
       THEN Fail(ParamsError)
       ELSE Post("/create",
                 Obj(OmitBy(CreateFields(from, to, Default(typeArg, Float), tag))))
    /\ UNCHANGED <<client, lastCtor, splitIn, splitOut>>

----------------------------------------------------------------------------
(* Responses *)

Payloads ==
    {Null,
     Obj(<<>>),
     Obj(<<Entry("id", Str(<<"I">>)), Entry("status", Str(<<"4">>))>>),
     Obj(<<Entry("code", Num(0)), Entry("msg", OK)>>),
     Obj(<<Entry("code", Num(0)), Entry("msg", OK), Entry("status", Str(<<"4">>))>>),
     Obj(<<Entry("code", Num(0)), Entry("msg", OK), Entry("status", Num(4))>>),
     Obj(<<Entry("code", Num(1)), Entry("msg", Str(<<"Invalid signature">>))>>)}

Envelopes ==
    {Obj(<<Entry("code", c), Entry("msg", m), Entry("data", d)>>) :
        c \in {Num(0), Num(1)}, m \in {OK, Str(<<"Invalid signature">>)},
        d \in Payloads}

\* The awaited post settles: the interceptor's outcome is the operation's.
Settle(outcome) ==
    /\ result' = outcome
    /\ pc' = "done"
    /\ UNCHANGED <<request, nreq>>

\* A 2xx response with body `body` arrives.
Respond(body) ==
    /\ pc = "awaiting"
    /\ response' = body
    /\ Settle(Intercept(body))
    /\ UNCHANGED <<client, lastCtor, call, splitIn, splitOut>>

\* The transport fails: the response interceptor's handler is not run.
TransportFail ==
    /\ pc = "awaiting"
    /\ response' = Undef
    /\ Settle(Thrown(TransportError))
    /\ UNCHANGED <<client, lastCtor, call, splitIn, splitOut>>

\* The caller has the outcome; the next invocation starts afresh.
Return ==
    /\ pc = "done"
    /\ pc' = "idle"
    /\ call' = NoCall
    /\ request' = NoRequest
    /\ nreq' = 0
    /\ response' = Undef
    /\ result' = Pending
    /\ UNCHANGED <<client, lastCtor, splitIn, splitOut>>

----------------------------------------------------------------------------
(* Specifications *)

NotSplit == [done |-> FALSE, amount |-> Undef, ccy |-> Undef]

Init ==
    /\ client = NoClient
    /\ lastCtor = NotConstructed
    /\ pc = "idle"
    /\ call = NoCall
    /\ request = NoRequest
    /\ nreq = 0
    /\ response = Undef
    /\ result = Pending
    /\ splitIn = Undef
    /\ splitOut = NotSplit

Next ==
    \/ \E a \in KeyArgs("K"), s \in KeyArgs("S"), aff \in AffiliateArgs :
          Construct(a, s, aff)
    \/ GetCurrencies
    \/ \E f \in CcyArgs, t \in CcyArgs, ty \in TypeArgs : GetPrice(f, t, ty)
    \/ \E i \in OptArgs("I"), tk \in OptArgs("T") : GetOrder(i, tk)
    \/ \E tk \in OptArgs("T"), ch \in {Str(<<"EXCHANGE">>), Str(<<"REFUND">>)},
          ad \in OptArgs("A") : SetEmergency(Str(<<"I">>), tk, ch, ad)
    \/ \E f \in CcyArgs, t \in CcyArgs, ad \in {Undef, Str(<<"A">>)},
          ty \in TypeArgs, tg \in {Undef, Str(<<>>), Str(<<"M">>)} :
          CreateOrder(f, t, ad, ty, tg)
    \/ \E body \in Envelopes : Respond(body)
    \/ TransportFail
    \/ Return

Spec == Init /\ [][Next]_vars

\* The parsing helper on its own, over every string up to MaxLen symbols.
MaxLen == 3

Symbols == {"1", "E", "B", SP}

Strings == UNION {[1..n -> Symbols] : n \in 0..MaxLen}

InitSplit ==
    /\ client = NoClient
    /\ lastCtor = NotConstructed
    /\ pc = "idle"
    /\ call = NoCall
    /\ request = NoRequest
    /\ nreq = 0
    /\ response = Undef
    /\ result = Pending
    /\ splitIn \in {Str(s) : s \in Strings}
    /\ splitOut = NotSplit

ApplySplit ==
    /\ ~splitOut.done
    /\ splitOut' = [done |-> TRUE, amount |-> SplitCcy(splitIn).amount,
                    ccy |-> SplitCcy(splitIn).ccy]
    /\ UNCHANGED <<client, lastCtor, pc, call, request, nreq, response, result,
                   splitIn>>

NextSplit == ApplySplit

SpecSplit == InitSplit /\ [][NextSplit]_vars

----------------------------------------------------------------------------
(* Properties *)

Settled == pc = "done"

Sent == nreq >= 1

GotEnvelope == Settled /\ response.t = "object"

EnvelopeOk ==
    /\ StrictEq(Prop(response, "code"), Num(0))
    /\ StrictEq(Prop(response, "msg"), OK)

\* Missing or empty: undefined, null or the empty string.
Blank(x) == x.t \in {"undefined", "null"} \/ (x.t = "string" /\ x.s = <<>>)

\* C1: a response envelope {code: 0, msg: "OK", data: D} with D an object
\* makes the call return successfully, and what it returns is exactly D.
C1_SuccessReturnsPayload ==
    (GotEnvelope /\ EnvelopeOk /\ Prop(response, "data").t = "object")
        => (result.kind = "ok" /\ result.value = Prop(response, "data"))

\* C2: a response envelope with code # 0 or msg # "OK" makes the call fail
\* with an error that carries the envelope's code and msg, whatever the
\* envelope's data holds.
C2_ErrorEnvelopeFails ==
    (GotEnvelope /\ ~EnvelopeOk)
        => /\ result.kind = "error"
           /\ result.err.code = Prop(response, "code")
           /\ result.err.msg = Prop(response, "msg")

\* "<amount> <CODE>": one space, with text before it and after it.
AmountAndCode(x) ==
    /\ x.t = "string" /\ Len(x.s) = 3
    /\ x.s[1] # SP /\ x.s[2] = SP /\ x.s[3] # SP

\* "<CODE>": text without a space.
BareCode(x) == x.t = "string" /\ Len(x.s) = 1 /\ x.s[1] # SP

\* What a request body must hold for source `src` and target `dst`, the side
\* `side` carrying the amount.
QuoteBody(body, src, dst, amt, side) ==
    /\ Prop(body, "fromCcy") = Str(<<src>>)
    /\ Prop(body, "toCcy") = Str(<<dst>>)
    /\ Prop(body, "amount") = Str(<<amt>>)
    /\ Prop(body, "direction") = Str(<<side>>)
    /\ Len(SelectEntries(body.e, "amount")) = 1

\* C3: getPrice with the amount on exactly one side sends a body with
\* fromCcy, toCcy, the amount and the direction of the side that carried it,
\* and one amount field.
C3_PriceBody ==
    (pc # "idle" /\ call.op = "getPrice")
        => /\ (AmountAndCode(call.from) /\ BareCode(call.to))
                => (Sent /\ QuoteBody(request.data, call.from.s[3], call.to.s[1],
                                      call.from.s[1], "from"))
           /\ (BareCode(call.from) /\ AmountAndCode(call.to))
                => (Sent /\ QuoteBody(request.data, call.from.s[1], call.to.s[3],
                                      call.to.s[1], "to"))

\* C4: every request createOrder sends carries the caller's destination
\* address, and carries the tag when a non-empty tag was given.
C4_AddressAndTagSent ==
    (pc # "idle" /\ call.op = "createOrder" /\ Sent)
        => /\ ~Blank(call.toAddress)
                => \E i \in 1..Len(request.wireFields) :
                       request.wireFields[i].v = call.toAddress
           /\ ~Blank(call.tag)
                => Prop(Obj(request.wireFields), "tag") = call.tag

\* The fields the running operation assembles, before any of them is dropped.
Assembled ==
    CASE call.op = "getPrice" ->
            PriceFields(call.from, call.to, Default(call.type, Float))
      [] call.op = "createOrder" ->
            CreateFields(call.from, call.to, Default(call.type, Float), call.tag)
      [] call.op = "getOrder" -> OrderFields(call.id, call.token)
      [] call.op = "setEmergency" ->
            EmergencyFields(call.id, call.token, call.choice, call.address)
      [] OTHER -> <<>>

\* C5: in every request sent, a field whose value is empty, null or undefined
\* is in neither the signed payload nor the transmitted body, and a field
\* with a non-empty value is in both.
C5_EmptyFieldsDropped ==
    (pc # "idle" /\ Sent)
        => \A i \in 1..Len(Assembled) :
              LET e == Assembled[i]
              IN  IF Blank(e.v)
                  THEN /\ e.k \notin Keys(request.signFields)
                       /\ e.k \notin Keys(request.wireFields)
                  ELSE /\ e.k \in Keys(request.signFields)
                       /\ e.k \in Keys(request.wireFields)

\* C6: in every request sent, the text the signature is computed over is the
\* text that is transmitted as the body.
C6_SignedTextIsBody ==
    (pc # "idle" /\ Sent)
        => /\ request.sign.msg = request.signBase
           /\ request.signBase = request.wireBody

\* A side carries an amount when it is a string with a non-empty part before
\* its first space.
CarriesAmount(x) == x.t = "string" /\ IndexOf(x.s, SP) > 0

\* C7: getPrice and createOrder fail with the invalid-argument error, sending
\* nothing, whenever neither side carries an amount.
C7_NoAmountRejected ==
    (/\ pc # "idle"
     /\ call.op \in {"getPrice", "createOrder"}
     /\ ~CarriesAmount(call.from)
     /\ ~CarriesAmount(call.to))
        => (nreq = 0 /\ Settled /\ result = Thrown(ParamsError))

\* The invocation passed the operation's own argument check.
PassedValidation ==
    \/ call.op \in {"getCurrencies", "getOrder", "setEmergency"}
    \/ /\ call.op \in {"getPrice", "createOrder"}
       /\ result # Thrown(ParamsError)

\* An invocation never has more than one request behind it, has exactly one
\* once it passed validation, and none when validation failed.
OneRequestPerInvocation ==
    /\ nreq <= 1
    /\ (pc # "idle" /\ PassedValidation) => nreq = 1
    /\ (pc # "idle" /\ ~PassedValidation) => nreq = 0
    /\ pc = "idle" => nreq = 0

\* C8: an invocation that passes validation issues exactly one request, and
\* after a transport failure or an error envelope the caller has the error
\* and no second request was issued.
C8_OneRequestErrorsSurface ==
    /\ OneRequestPerInvocation
    /\ (Settled /\ PassedValidation /\ response.t # "object")
          => result = Thrown(TransportError)
    /\ (GotEnvelope /\ ~EnvelopeOk) => result.kind = "error"

\* C9: constructing with a missing or empty API key or secret key throws the
\* credentials error and leaves no client, so no operation runs without
\* both keys.
C9_KeysRequired ==
    /\ (lastCtor.run /\ (Blank(lastCtor.apiKey) \/ Blank(lastCtor.secretKey)))
          => (lastCtor.err = KeysError /\ ~client.made)
    /\ client.made => (~Blank(client.apiKey) /\ ~Blank(client.secretKey))
    /\ pc # "idle" => client.made

C9_Witness ==
    /\ lastCtor.run
    /\ ~Blank(lastCtor.apiKey) /\ Blank(lastCtor.secretKey)
    /\ lastCtor.err = KeysError
    /\ ~client.made

\* C10: _splitCcy returns the whole string as the code, with no amount, when
\* there is no space; otherwise the amount is the text before the first space
\* and the code is all of the text after it.
C10_SplitOnFirstSpace ==
    splitOut.done
        => LET s == splitIn.s
               i == IndexOf(s, SP)
           IN  IF i < 0
               THEN splitOut.ccy = splitIn /\ splitOut.amount = Undef
               ELSE /\ splitOut.amount = Str(SubSeq(s, 1, i))
                    /\ splitOut.ccy = Str(SubSeq(s, i + 2, Len(s)))

====
